---- MODULE Spec2Model ----
(***************************************************************************)
(* Storage / dedup / expiry subsystem of the share-note server:            *)
(*   app/src/v1/File.ts    File (initFile, createNote, upload, saveFile,   *)
(*                         deleteFile), Paths                              *)
(*   app/src/v1/Mapper.ts  MapperClass (load, set, save)                   *)
(*   app/src/v1/Cron.ts    Cron (constructor, deleteExpiredFiles)          *)
(*                                                                         *)
(* Strings are sequences of one-character strings, so that concatenation,  *)
(* substring and the SQL LIKE prefix match are computed as the code does.  *)
(* Every request is cut at its awaits: one action per block of code that   *)
(* runs without yielding and touches the index, the disk or the cache.     *)
(***************************************************************************)
EXTENDS Integers, Sequences, FiniteSets, TLC

VARIABLES
    db,      \* table `files`: a set of rows
    disk,    \* the filesystem: file path -> bytes, for the files present
    clock,   \* unixepoch() / now()
    nextId,  \* the rowid the next INSERT is given
    started, \* number of requests received so far
    req,     \* per request slot: the File controller instance and its position
    sweep,   \* the Cron instance's running deleteExpiredFiles call
    edge,    \* the edge cache as purgeCache finds it: "up" or "down"
    call,    \* a call of a Paths method or of getHashFilename: its receiver's
             \* app, its arguments, its random bytes, its result
    mapper   \* a MapperClass instance on table `files` and its calls so far

vars == <<db, disk, clock, nextId, started, req, sweep, edge, call, mapper>>

\* what the requests and the sweeper leave alone
env == <<edge, call, mapper>>

----------------------------------------------------------------------------
(* Bounds of the model *)

\* requests received in one behaviour
MaxReqs == 3
\* largest clock value
MaxTime == 2

\* largest app.folderPrefix a Paths call is made with
MaxPrefix == 3

\* calls made on one MapperClass instance
MaxCalls == 4

\* the request slots: two requests can be in flight at once
Procs == {1, 2}

----------------------------------------------------------------------------
(* Values *)

\* this.user.row.id of the authenticated account; its uid is the same token
Users == {"A", "B"}

\* SQL NULL, per column type
NullId == 0
NullNum == -1
NullStr == <<>>
NullUser == "null"

\* the string of n characters c
rep(n, c) == [i \in 1..n |-> c]

\* the base-36 digits the random names of the model are made of
Alphabet == {"a", "b"}

\* length of a SHA1 in hex
HashLen == 40

\* the content hashes requests send: two that differ from their first
\* character on, and one that differs from the first only in its last
Hashes ==
    {rep(HashLen, "a"), rep(HashLen, "b"),
     [i \in 1..HashLen |-> IF i = HashLen THEN "c" ELSE "a"]}

\* uploaded bytes / note template contents
Contents == {"x", "y"}

\* post.filetype values used by requests: document, stylesheet, generic asset
Filetypes == {"html", "css", "png"}

\* post.expiration: absent, or a Javascript timestamp in milliseconds (the
\* one of the model is the first second of the clock)
Expirations == {NullNum, 1000}

----------------------------------------------------------------------------
(* helpers.ts, and the name generators of File.ts *)

\* filenameLengths
HtmlNameLen == 8
DefaultNameLen == 20

filenameLength(extension) ==
    IF extension = "html" THEN HtmlNameLen ELSE DefaultNameLen

\* getHashFilename: a string of filenameLength random base-36 digits. The
\* draws of the model are the strings of one repeated digit of Alphabet.
getHashFilename(extension) ==
    {rep(filenameLength(extension), c) : c \in Alphabet}

\* sha1 of the bytes written: a digest, given as a table over the bytes that
\* occur (distinct bytes have distinct digests)
sha1(bytes) ==
    CASE bytes = "x" -> rep(HashLen, "a")
      [] bytes = "y" -> rep(HashLen, "b")
      [] bytes = "<x>" -> rep(HashLen, "d")
      [] bytes = "<y>" -> rep(HashLen, "e")

\* sha256 of hashSalt + uid in hex: a digest, distinct for distinct uids
sha256(uid) == rep(64, IF uid = "A" THEN "0" ELSE "1")

\* shortHash: the first 32 characters of the SHA-256
ShortHashLen == 32
shortHash(uid) == SubSeq(sha256(uid), 1, ShortHashLen)

\* the uid left out: the hash of the salt alone
getCssFilename_Shared(user) == shortHash("A")

\* getCssFilename: the salted hash of the user's uid
getCssFilename(user) == shortHash(user)

\* hash.substring(0, 8)
HashSuffixLen == 8

\* no suffix at all: every hash under the bare prefix
hashSuffix_None(hash) == <<>>

hashSuffix(hash) == SubSeq(hash, 1, HashSuffixLen)

\* SQL: filename LIKE prefix || '%'
Like(filename, prefix) ==
    /\ Len(filename) >= Len(prefix)
    /\ SubSeq(filename, 1, Len(prefix)) = prefix

\* WebNote.contents(): the template with the note's content filled in
noteContents(content) == IF content = "x" THEN "<x>" ELSE "<y>"

\* contents.length / contents.byteLength
byteLength(bytes) == IF bytes \in {"x", "y"} THEN 1 ELSE 3

----------------------------------------------------------------------------
(* Paths (File.ts) *)

\* app.folderPrefix: number of leading filename characters used as subfolder
folderPrefix == 1

\* the App the server runs with, as far as Paths reads it. baseFolder and
\* baseWebUrl are kept as the tokens {baseFolder} and {baseWebUrl}.
appInstance ==
    [folderPrefix |-> folderPrefix, baseFolder |-> <<"{baseFolder}">>,
     baseWebUrl |-> <<"{baseWebUrl}">>]

\* filename.substring(0, length)
substring0(str, length) ==
    SubSeq(str, 1, IF length < Len(str) THEN length ELSE Len(str))

\* every stylesheet under the generic bucket
Paths_folderPath_NoCss(app, filename, extension) ==
    LET subdir == IF app.folderPrefix # 0
                  THEN <<"/">> \o substring0(filename, app.folderPrefix)
                  ELSE <<>>
    IN  IF extension = "html" THEN <<"notes">> \o subdir
        ELSE <<"files">> \o subdir

\* class Paths, constructed with an App
Paths_folderPath(app, filename, extension) ==
    LET subdir == IF app.folderPrefix # 0
                  THEN <<"/">> \o substring0(filename, app.folderPrefix)
                  ELSE <<>>
    IN  CASE extension = "html" -> <<"notes">> \o subdir
          [] extension = "css" -> <<"css">> \o subdir
          [] OTHER -> <<"files">> \o subdir

\* fullFilePath(...).folder
Paths_folder(app, filename, extension) ==
    app.baseFolder \o <<"/userfiles/">>
        \o Paths_folderPath(app, filename, extension)

\* the file is named by the filename alone
Paths_fullFilePath_NoExtension(app, filename, extension) ==
    Paths_folder(app, filename, extension) \o <<"/">> \o filename

\* fullFilePath(...).filePath
Paths_fullFilePath(app, filename, extension) ==
    Paths_folder(app, filename, extension)
        \o <<"/">> \o filename \o <<".", extension>>

\* [baseWebUrl, folderPath, filename + '.' + extension].join('/')
Paths_fileUrl(app, filename, extension) ==
    app.baseWebUrl \o <<"/">> \o Paths_folderPath(app, filename, extension)
        \o <<"/">> \o filename \o <<".", extension>>

Paths_displayUrl(app, filename, extension) ==
    IF extension = "html"
    THEN app.baseWebUrl \o <<"/">> \o filename
    ELSE Paths_fileUrl(app, filename, extension)

\* the File controller's own Paths, new Paths(appInstance)
folderPath(filename, extension) ==
    Paths_folderPath(appInstance, filename, extension)

\* getFullFilePath().filePath
fullFilePath(filename, extension) ==
    Paths_fullFilePath(appInstance, filename, extension)

\* getFileUrl()
fileUrl(filename, extension) ==
    Paths_fileUrl(appInstance, filename, extension)

\* getDisplayUrl()
displayUrl(filename, extension) ==
    Paths_displayUrl(appInstance, filename, extension)

----------------------------------------------------------------------------
(* MapperClass (Mapper.ts) over table `files` *)

\* emptyRow(): every declared column null
emptyRow ==
    [id |-> NullId, users_id |-> NullUser, filename |-> NullStr,
     filetype |-> "", hash |-> NullStr, bytes |-> NullNum,
     encrypted |-> NullNum, expires |-> NullNum,
     created |-> NullNum, updated |-> NullNum]

found(row) == row.id # NullId
notFound(row) == row.id = NullId

\* WHERE field1=? AND field2=? ... over the fields of params
Matching(table, params) ==
    {r \in table : \A k \in DOMAIN params : r[k] = params[k]}

\* a lookup that never finds the row
load_Miss(table, params) == {emptyRow}

\* load(params): SELECT * ... LIMIT 1; the rows it can return (any matching
\* row, the blank row when there is none)
load(table, params) ==
    IF Matching(table, params) = {} THEN {emptyRow} ELSE Matching(table, params)

\* table `files`: id is the primary key; no other constraint is declared,
\* so any row may be inserted next to the rows there
insertAccepted(table, row) == TRUE

\* save(): whether a row was affected
saveOk(table, row) ==
    IF row.id # NullId
    THEN \E r \in table : r.id = row.id
    ELSE insertAccepted(table, row)

\* the generated id is not put into the row
savedRow_NoId(row, newId) == row

\* save(): the row as the mapper holds it afterwards
savedRow(row, newId) ==
    IF row.id # NullId THEN row ELSE [row EXCEPT !.id = newId]

\* save(): the table afterwards. UPDATE ... WHERE id = ? of every column but
\* id, or INSERT of the row under a fresh rowid
saveTable(table, row, newId) ==
    IF row.id # NullId
    THEN {IF r.id = row.id THEN row ELSE r : r \in table}
    ELSE table \cup {[row EXCEPT !.id = newId]}

----------------------------------------------------------------------------
(* Request validation (File.ts) *)

fileExtensionWhitelist ==
    {"html", "css", "jpg", "jpeg", "png", "webp", "svg", "gif", "webm",
     "ttf", "otf", "woff", "woff2"}

\* [a-f0-9] and [a-z0-9]
HexDigits ==
    {"0", "1", "2", "3", "4", "5", "6", "7", "8", "9",
     "a", "b", "c", "d", "e", "f"}
LowerAlnum ==
    HexDigits \cup
    {"g", "h", "i", "j", "k", "l", "m", "n", "o", "p", "q", "r", "s", "t",
     "u", "v", "w", "x", "y", "z"}

\* the length alone is checked
validHash_LengthOnly(hash) == Len(hash) = HashLen

\* the check at the head of initFile: 40 characters, none outside [a-f0-9]
validHash(hash) ==
    /\ Len(hash) = HashLen
    /\ \A i \in 1..Len(hash) : hash[i] \in HexDigits

\* filename.split('.')[0]
splitDot(filename) ==
    IF \E i \in 1..Len(filename) : filename[i] = "."
    THEN SubSeq(filename, 1,
                (CHOOSE i \in 1..Len(filename) :
                    /\ filename[i] = "."
                    /\ \A j \in 1..(i - 1) : filename[j] # ".") - 1)
    ELSE filename

\* checkPostFilenameAndExtension: the status it throws, "" when it passes
checkStatus(post) ==
    IF (IF post.filetype # "" THEN post.filetype ELSE "Unknown")
           \notin fileExtensionWhitelist
    THEN "415"
    ELSE IF /\ post.filename # NullStr
            /\ \/ splitDot(post.filename) = <<>>
               \/ \E i \in 1..Len(splitDot(post.filename)) :
                     splitDot(post.filename)[i] \notin LowerAlnum
         THEN "400"
         ELSE ""

\* checkPostFilenameAndExtension: this.filename afterwards
checkedFilename(r) ==
    IF r.post.filename # NullStr THEN splitDot(r.post.filename) ELSE r.filename

----------------------------------------------------------------------------
(* The File controller: one instance per request *)

\* a request slot with no request in it
idleReq ==
    [pc |-> "idle", op |-> "none", user |-> NullUser,
     post |-> [filetype |-> "", filename |-> NullStr, hash |-> NullStr,
               content |-> "", expiration |-> NullNum, encrypted |-> FALSE],
     filename |-> NullStr, extension |-> "", hash |-> NullStr,
     file |-> emptyRow, initialised |-> FALSE, contents |-> "",
     purged |-> {}, purgeFailed |-> FALSE, status |-> "", url |-> NullStr,
     success |-> FALSE, items |-> <<>>, checked |-> <<>>, css |-> {}]

\* constructor: the controller as the route hands it to the operation
newReq(op, user, post) ==
    [idleReq EXCEPT !.pc = op, !.op = op, !.user = user, !.post = post,
                    !.hash = post.hash]

\* the exception is lost and the operation goes on to saveFile
fail_GoesOn(r, status) == [r EXCEPT !.pc = "writeFile", !.status = status]

\* the request ends with an HTTPException of this status
fail(r, status) == [r EXCEPT !.pc = "done", !.status = status]

\* returnSuccessUrl()
returnSuccessUrl(r) ==
    [r EXCEPT !.pc = "done", !.status = "200", !.success = TRUE,
              !.url = displayUrl(r.filename, r.extension)]

\* Database.dateToSqlite: a Javascript date as the value the expires column
\* holds, which the sweeper's SELECT compares with unixepoch(): seconds
dateToSqlite(ms) == ms \div 1000

\* getExpiration(): post.expiration converted, or null
getExpiration(post) ==
    IF post.expiration # NullNum THEN dateToSqlite(post.expiration) ELSE NullNum

\* a failed purge throws into the caller
purgeCache_Throws(r, urls) ==
    IF edge = "down"
    THEN fail([r EXCEPT !.purged = @ \cup urls, !.purgeFailed = TRUE], "500")
    ELSE [r EXCEPT !.purged = @ \cup urls]

\* cloudflare.purgeCache(urls), awaited by the controller r: the URLs are
\* handed over; a purge that fails is logged by the collaborator and the
\* call returns all the same
purgeCache(r, urls) ==
    [r EXCEPT !.purged = @ \cup urls,
              !.purgeFailed = @ \/ edge = "down"]

\* the unlink does nothing
unlink_Keeps(fs, path) == fs

\* unlink(path), errors swallowed: the file is gone if it was there
unlink(fs, path) == [q \in DOMAIN fs \ {path} |-> fs[q]]

\* writeFile(path, contents): replaces any prior content
writeFile(fs, path, contents) ==
    [q \in DOMAIN fs \cup {path} |-> IF q = path THEN contents ELSE fs[q]]

\* no Paths call made
noCall ==
    [pc |-> "none", app |-> appInstance, filename |-> <<>>, extension |-> "",
     bytes |-> <<>>, filename2 |-> <<>>, extension2 |-> "", filePath2 |-> <<>>,
     folder |-> <<>>, filePath |-> <<>>, displayUrl |-> <<>>, fileUrl |-> <<>>]

\* a mapper as `await Mapper(db, 'files')` returns it: init() has set every
\* column of the table to null
newMapper == [row |-> emptyRow, calls |-> <<>>, params |-> <<>>, returned |-> FALSE]

Init ==
    /\ db = {}
    /\ disk = <<>>
    /\ clock = 0
    /\ nextId = 1
    /\ started = 0
    /\ req = [p \in Procs |-> idleReq]
    /\ sweep = [pc |-> "idle", self |-> "Cron", files |-> <<>>, i |-> 1,
                purged |-> {}]
    /\ edge = "up"
    /\ call = noCall
    /\ mapper = newMapper

\* Requests arrive with inputs drawn from a workload w: the sets the users,
\* filetypes, names, hashes, contents, expirations and encrypted flags are
\* taken from, and whether requests overlap (solo: a request is received
\* only when no other is in flight, and then in the first slot).
mayReceive(p, w) ==
    /\ req[p].pc = "idle"
    /\ started < MaxReqs
    /\ w.solo => \A q \in Procs : req[q].pc = "idle" /\ p <= q

\* a request arrives: POST createNote (documents). The hash posted with a
\* note is only format-checked: createNote replaces it by the SHA1 of the
\* rendered note before anything is saved.
ReceiveCreateNote(p, w) ==
    /\ mayReceive(p, w)
    /\ \E user \in w.users, filename \in w.names, hash \in {rep(HashLen, "a")},
          content \in w.contents, expiration \in w.expirations,
          encrypted \in w.encrypted :
         req' = [req EXCEPT ![p] = newReq("createNote", user,
                    [filetype |-> "html", filename |-> filename, hash |-> hash,
                     content |-> content, expiration |-> expiration,
                     encrypted |-> encrypted])]
    /\ started' = started + 1
    /\ UNCHANGED <<env, db, disk, clock, nextId, sweep>>

\* a request arrives: POST upload (stylesheets and generic assets)
ReceiveUpload(p, w) ==
    /\ mayReceive(p, w)
    /\ \E user \in w.users, filetype \in w.filetypes, hash \in w.hashes,
          content \in w.contents, expiration \in w.expirations :
         req' = [req EXCEPT ![p] = newReq("upload", user,
                    [filetype |-> filetype, filename |-> NullStr, hash |-> hash,
                     content |-> content, expiration |-> expiration,
                     encrypted |-> FALSE])]
    /\ started' = started + 1
    /\ UNCHANGED <<env, db, disk, clock, nextId, sweep>>

\* initFile(false) is called on a controller, for any post
ReceiveInitFile(p, w) ==
    /\ mayReceive(p, w)
    /\ \E user \in w.users, filetype \in w.filetypes, filename \in w.names,
          hash \in w.hashes :
         req' = [req EXCEPT ![p] = newReq("initFile", user,
                    [filetype |-> filetype, filename |-> filename, hash |-> hash,
                     content |-> "", expiration |-> NullNum,
                     encrypted |-> FALSE])]
    /\ started' = started + 1
    /\ UNCHANGED <<env, db, disk, clock, nextId, sweep>>

\* the ownership test left out
notOwner_Never(row, user) == FALSE

\* `this.file.found && this.file.row.users_id !== this.user.row.id`
notOwner(row, user) == found(row) /\ row.users_id # user

\* a name sent that matches no record is taken as it is
unknownName_Kept(userProvidedName, row) == FALSE

\* `userProvidedName && this.file.notFound`: the user has sent a name that
\* is not in the table
unknownName(userProvidedName, row) == userProvidedName /\ notFound(row)

\* any record found counts as the caller's
isOwner_AnyFound(row, user) == found(row)

\* `this.file.found && this.file.row.users_id === this.user.row.id`
isOwner(row, user) == found(row) /\ row.users_id = user

\* after initFile: createNote renders the note and takes the SHA1 of the
\* result as this.hash; upload passes the posted content on as it is.
\* Either way saveFile is entered next.
toSaveFile(r) ==
    IF r.op = "createNote"
    THEN [r EXCEPT !.pc = "writeFile",
                   !.contents = noteContents(r.post.content),
                   !.hash = sha1(noteContents(r.post.content))]
    ELSE [r EXCEPT !.pc = "writeFile", !.contents = r.post.content]

\* initFile(createIfNotExist): createNote and upload call initFile() with the
\* default, true; a request whose operation is initFile itself is the call
\* initFile(false)
createIfNotExist(r) == r.op # "initFile"

\* initFile has returned: createNote and upload go on to saveFile; a bare
\* call is over
initFileReturns(r) ==
    IF r.op = "initFile"
    THEN [r EXCEPT !.pc = "done", !.status = "returned"]
    ELSE toSaveFile(r)

\* initFile up to its first index lookup. 463 and checkPostFilenameAndExtension
\* come first; then, per category:
\*   html: the name is generated when none was sent, looked up, and replaced
\*         by a generated one when the record is someone else's or when the
\*         name sent matches no record; without createIfNotExist these three
\*         cases end with 400, 403 and 403;
\*   css:  the user's record with this hash is reused, else prefix + suffix;
\*         with no hash, the bare prefix;
\*   else: the record with this (filetype, hash) is reused; when there is
\*         none the name is generated, or 404 without createIfNotExist.
initFile(p) ==
    LET r == req[p]
        ext == r.post.filetype
        r1 == [r EXCEPT !.extension = ext, !.filename = checkedFilename(r)]
    IN
    /\ r.pc \in {"createNote", "upload", "initFile"}
    /\ ~r.initialised
    /\ UNCHANGED <<env, db, disk, clock, nextId, started, sweep>>
    /\ IF ~validHash(r.hash)
       THEN req' = [req EXCEPT ![p] = fail(r, "463")]
       ELSE IF checkStatus(r.post) # ""
       THEN req' = [req EXCEPT ![p] = fail(r, checkStatus(r.post))]
       ELSE IF ext = "html"
       THEN LET userProvidedName == r1.filename # NullStr IN
            IF ~userProvidedName /\ ~createIfNotExist(r)
            THEN req' = [req EXCEPT ![p] = fail(r1, "400")]
            ELSE
            \E gen1 \in getHashFilename(ext), gen2 \in getHashFilename(ext) :
              LET name1 == IF userProvidedName THEN r1.filename ELSE gen1
              IN  \E row \in load(db, [filename |-> name1, filetype |-> ext]) :
                    LET replaced == \/ notOwner(row, r.user)
                                    \/ unknownName(userProvidedName, row)
                        name2 == IF replaced THEN gen2 ELSE name1
                    IN  IF replaced /\ ~createIfNotExist(r)
                        THEN req' = [req EXCEPT ![p] =
                                       fail([r1 EXCEPT !.file = row,
                                                       !.filename = name1], "403")]
                        ELSE req' = [req EXCEPT ![p] =
                                       [r1 EXCEPT !.pc = "recheck", !.file = row,
                                                  !.filename = name2]]
       ELSE IF ext = "css"
       THEN LET cssFilename == getCssFilename(r.user)
                existingCss == {x \in db : /\ x.filetype = "css"
                                           /\ Like(x.filename, cssFilename)
                                           /\ x.hash = r.hash}
            IN  \E name \in IF r.hash = NullStr
                            THEN {cssFilename}
                            ELSE IF existingCss # {}
                            THEN {x.filename : x \in existingCss}
                            ELSE {cssFilename \o hashSuffix(r.hash)} :
                  \E row \in load(db, [filetype |-> ext, filename |-> name]) :
                    req' = [req EXCEPT ![p] =
                              initFileReturns([r1 EXCEPT !.file = row,
                                                         !.filename = name,
                                                         !.initialised = TRUE])]
       ELSE \E row \in load(db, [filetype |-> ext, hash |-> r.hash]) :
              IF found(row)
              THEN \* `return this.returnSuccessUrl()` ends initFile only:
                   \* upload() goes on to saveFile with the row found
                   req' = [req EXCEPT ![p] =
                             initFileReturns([r1 EXCEPT !.file = row,
                                                        !.filename = row.filename])]
              ELSE IF ~createIfNotExist(r)
              THEN req' = [req EXCEPT ![p] = fail([r1 EXCEPT !.file = row], "404")]
              ELSE \E gen \in getHashFilename(ext) :
                     req' = [req EXCEPT ![p] =
                               initFileReturns([r1 EXCEPT !.file = row,
                                                          !.filename = gen,
                                                          !.initialised = TRUE])]

\* a further call of initFile(false) on a controller whose first call has
\* returned: `if (this.initialised) return`, else the body runs again
initFileAgain(p) ==
    LET r == req[p] IN
    /\ r.op = "initFile"
    /\ r.pc = "done"
    /\ r.status = "returned"
    /\ req' = [req EXCEPT ![p] =
                 IF r.initialised
                 THEN [r EXCEPT !.status = "returned at once"]
                 ELSE [r EXCEPT !.pc = "initFile", !.status = ""]]
    /\ UNCHANGED <<env, db, disk, clock, nextId, started, sweep>>

\* initFile, html: the second lookup, under the name settled on. A record
\* of another user under that name ends the request with 403.
recheck(p) ==
    LET r == req[p] IN
    /\ r.pc = "recheck"
    /\ UNCHANGED <<env, db, disk, clock, nextId, started, sweep>>
    /\ \E row \in load(db, [filename |-> r.filename, filetype |-> r.extension]) :
         IF notOwner(row, r.user)
         THEN req' = [req EXCEPT ![p] = fail([r EXCEPT !.file = row], "403")]
         ELSE req' = [req EXCEPT ![p] =
                        initFileReturns([r EXCEPT !.file = row,
                                                  !.initialised = TRUE])]

\* status of a failed saveFile as the operation reports it: upload() catches
\* the exception and throws FILE_FAILED_TO_UPLOAD
saveError(r) ==
    IF r.op = "upload" THEN "FILE_FAILED_TO_UPLOAD" ELSE "FILE_FAILED_TO_SAVE"

\* saveFile, first part: the folder is made, the bytes are written, and the
\* display URL and the file URL are handed to cloudflare.purgeCache.
\* A write that fails ends the request; so would an exception out of
\* purgeCache, which saveFile does not catch.
writeFileStep(p) ==
    LET r == req[p]
        filePath == fullFilePath(r.filename, r.extension)
        purging == purgeCache(r, {displayUrl(r.filename, r.extension),
                                  fileUrl(r.filename, r.extension)})
    IN
    /\ r.pc = "writeFile"
    /\ UNCHANGED <<env, db, clock, nextId, started, sweep>>
    /\ \/ /\ disk' = writeFile(disk, filePath, r.contents)
          /\ req' = [req EXCEPT ![p] =
                       IF purging.pc = "done"
                       THEN purging
                       ELSE [purging EXCEPT !.pc = "save"]]
       \/ /\ disk' = disk
          /\ req' = [req EXCEPT ![p] = fail(r, saveError(r))]

\* saveFile: the row as file.set() leaves it before save()
\* owner, name, type and creation time are stamped on every save
rowToSave_Restamp(r, date) ==
    [r.file EXCEPT !.users_id = r.user,
                   !.filename = r.filename,
                   !.filetype = r.extension,
                   !.created = date,
                   !.bytes = byteLength(r.contents),
                   !.encrypted = IF r.post.encrypted THEN 1 ELSE 0,
                   !.expires = getExpiration(r.post),
                   !.hash = r.hash,
                   !.updated = date]

rowToSave(r, date) ==
    LET stamped == IF notFound(r.file)
                   THEN [r.file EXCEPT !.users_id = r.user,
                                       !.filename = r.filename,
                                       !.filetype = r.extension,
                                       !.created = date]
                   ELSE r.file
    IN  [stamped EXCEPT !.bytes = byteLength(r.contents),
                        !.encrypted = IF r.post.encrypted THEN 1 ELSE 0,
                        !.expires = getExpiration(r.post),
                        !.hash = r.hash,
                        !.updated = date]

\* saveFile, second part: the row is stamped and saved; the operation
\* returns the display URL
saveFile(p) ==
    LET r == req[p]
        row == rowToSave(r, clock)
    IN
    /\ r.pc = "save"
    /\ UNCHANGED <<env, disk, clock, started, sweep>>
    /\ IF saveOk(db, row)
       THEN /\ db' = saveTable(db, row, nextId)
            /\ nextId' = IF notFound(row) THEN nextId + 1 ELSE nextId
            /\ req' = [req EXCEPT ![p] =
                         returnSuccessUrl([r EXCEPT !.file = savedRow(row, nextId)])]
       ELSE /\ UNCHANGED <<db, nextId>>
            /\ req' = [req EXCEPT ![p] = fail([r EXCEPT !.file = row], saveError(r))]

\* the response is sent; the controller is dropped
respond(p) ==
    /\ req[p].pc = "done"
    /\ req' = [req EXCEPT ![p] = idleReq]
    /\ UNCHANGED <<env, db, disk, clock, nextId, started, sweep>>

\* a request arrives: POST delete
ReceiveDelete(p, w) ==
    /\ mayReceive(p, w)
    /\ \E user \in w.users, filetype \in w.filetypes, filename \in w.names :
         req' = [req EXCEPT ![p] = newReq("deleteFile", user,
                    [filetype |-> filetype, filename |-> filename,
                     hash |-> NullStr, content |-> "",
                     expiration |-> NullNum, encrypted |-> FALSE])]
    /\ started' = started + 1
    /\ UNCHANGED <<env, db, disk, clock, nextId, sweep>>

\* deleteFile up to its lookup: only html, only a valid name; the record is
\* looked up and the deletion goes on only when it is found and owned by
\* the caller. Otherwise {success: true} is returned at once.
deleteFile(p) ==
    LET r == req[p]
        r1 == [r EXCEPT !.extension = r.post.filetype,
                        !.filename = checkedFilename(r)]
    IN
    /\ r.pc = "deleteFile"
    /\ UNCHANGED <<env, db, disk, clock, nextId, started, sweep>>
    /\ IF r.post.filetype # "html"
       THEN req' = [req EXCEPT ![p] = fail(r, "404")]
       ELSE IF checkStatus(r.post) # ""
       THEN req' = [req EXCEPT ![p] = fail(r, checkStatus(r.post))]
       ELSE \E row \in load(db, [filename |-> r1.filename,
                                 filetype |-> r1.extension]) :
              IF r1.extension = "html" /\ isOwner(row, r.user)
              THEN req' = [req EXCEPT ![p] =
                             [r1 EXCEPT !.pc = "unlink", !.file = row]]
              ELSE req' = [req EXCEPT ![p] =
                             [r1 EXCEPT !.pc = "done", !.file = row,
                                        !.status = "200"]]

\* deleteFile: the file is unlinked (errors ignored) and the display URL is
\* handed to cloudflare.purgeCache
deleteUnlink(p) ==
    LET r == req[p] IN
    /\ r.pc = "unlink"
    /\ disk' = unlink(disk, fullFilePath(r.filename, r.extension))
    /\ req' = [req EXCEPT ![p] =
                 LET purging ==
                       purgeCache(r, {displayUrl(r.filename, r.extension)})
                 IN  IF purging.pc = "done" THEN purging
                     ELSE [purging EXCEPT !.pc = "deleteRow"]]
    /\ UNCHANGED <<env, db, clock, nextId, started, sweep>>

\* deleteFile: DELETE FROM files WHERE filetype = 'html' AND filename = ?
deleteRow(p) ==
    LET r == req[p] IN
    /\ r.pc = "deleteRow"
    /\ db' = {x \in db : ~(x.filetype = "html" /\ x.filename = r.filename)}
    /\ req' = [req EXCEPT ![p] = [r EXCEPT !.pc = "done", !.status = "200"]]
    /\ UNCHANGED <<env, disk, clock, nextId, started, sweep>>

----------------------------------------------------------------------------
(* The check operations of the File controller: checkFile, checkCss and
   checkFiles. Each SELECT is one step; nothing else in them touches the
   index, the disk or the cache. *)

\* params of checkFile(item): item?.filetype || post.filetype and
\* item?.hash || post.hash; an absent or empty field falls back to the post
checkParams(post, item) ==
    [filetype |-> IF item.filetype # "" THEN item.filetype ELSE post.filetype,
     hash |-> IF item.hash # NullStr THEN item.hash ELSE post.hash]

\* the stylesheet lookup without the owner's prefix
cssRows_AnyOwner(table, user) == {x \in table : x.filetype = "css"}

\* WHERE filetype = 'css' AND filename LIKE cssFilename || '%'
cssRows(table, user) ==
    {x \in table : x.filetype = "css" /\ Like(x.filename, getCssFilename(user))}

\* checkFile(item): the answers the one SELECT ... LIMIT 1 can give. For css
\* a hash is needed and the row is one of the user's css rows with it; for
\* any other filetype both filetype and hash are needed and the row is
\* loaded by (filetype, hash). A row found gives returnSuccessUrl(url),
\* { success: true, url }; anything else { success: false, url: null }.
checkFileResult(table, user, params) ==
    IF params.filetype = "css"
    THEN IF params.hash # NullStr
              /\ {x \in cssRows(table, user) : x.hash = params.hash} # {}
         THEN {[success |-> TRUE,
                url |-> displayUrl(x.filename, x.filetype)] :
                 x \in {y \in cssRows(table, user) : y.hash = params.hash}}
         ELSE {[success |-> FALSE, url |-> NullStr]}
    ELSE IF params.filetype # "" /\ params.hash # NullStr
         THEN {IF found(x)
               THEN [success |-> TRUE,
                     url |-> displayUrl(x.filename, x.filetype)]
               ELSE [success |-> FALSE, url |-> NullStr] :
                 x \in load(table, [filetype |-> params.filetype,
                                    hash |-> params.hash])}
         ELSE {[success |-> FALSE, url |-> NullStr]}

\* the css array of checkCss and checkFiles: url and hash of every css row
\* of the user (the ORDER BY filename of the SELECT is not kept)
cssArray(table, user) ==
    {[url |-> displayUrl(x.filename, x.filetype), hash |-> x.hash] :
       x \in cssRows(table, user)}

\* a request arrives: POST checkFile, with any filetype and hash or none
ReceiveCheckFile(p, w) ==
    /\ mayReceive(p, w)
    /\ \E user \in w.users, filetype \in w.filetypes, hash \in w.hashes :
         req' = [req EXCEPT ![p] = newReq("checkFile", user,
                    [filetype |-> filetype, filename |-> NullStr, hash |-> hash,
                     content |-> "", expiration |-> NullNum,
                     encrypted |-> FALSE])]
    /\ started' = started + 1
    /\ UNCHANGED <<env, db, disk, clock, nextId, sweep>>

\* a request arrives: POST checkCss
ReceiveCheckCss(p, w) ==
    /\ mayReceive(p, w)
    /\ \E user \in w.users :
         req' = [req EXCEPT ![p] = newReq("checkCss", user, idleReq.post)]
    /\ started' = started + 1
    /\ UNCHANGED <<env, db, disk, clock, nextId, sweep>>

\* a request arrives: POST checkFiles, with a list of (filetype, hash)
ReceiveCheckFiles(p, w) ==
    /\ mayReceive(p, w)
    /\ \E user \in w.users, items \in w.lists :
         req' = [req EXCEPT ![p] =
                    [newReq("checkFiles", user, idleReq.post)
                       EXCEPT !.items = items]]
    /\ started' = started + 1
    /\ UNCHANGED <<env, db, disk, clock, nextId, sweep>>

\* checkFile(): the answer of the lookup is the response
checkFile(p) ==
    /\ req[p].pc = "checkFile"
    /\ \E res \in checkFileResult(db, req[p].user,
                                  checkParams(req[p].post, idleReq.post)) :
         req' = [req EXCEPT ![p] = [@ EXCEPT !.pc = "done", !.status = "200",
                                             !.success = res.success,
                                             !.url = res.url]]
    /\ UNCHANGED <<env, db, disk, clock, nextId, started, sweep>>

\* checkCss(): success when the user has a stylesheet, with the css array
checkCss(p) ==
    /\ req[p].pc = "checkCss"
    /\ req' = [req EXCEPT ![p] =
                 [@ EXCEPT !.pc = "done", !.status = "200",
                           !.success = cssArray(db, req[p].user) # {},
                           !.css = cssArray(db, req[p].user)]]
    /\ UNCHANGED <<env, db, disk, clock, nextId, started, sweep>>

\* checkFiles(), the loop: the next file of the list is looked up as
\* checkFile(file) does and gets the url of the answer
checkFilesItem(p) ==
    /\ req[p].pc = "checkFiles"
    /\ Len(req[p].checked) < Len(req[p].items)
    /\ LET item == req[p].items[Len(req[p].checked) + 1]
       IN \E res \in checkFileResult(db, req[p].user,
                                     checkParams(req[p].post, item)) :
            req' = [req EXCEPT ![p].checked =
                      Append(@, [filetype |-> item.filetype,
                                 hash |-> item.hash, url |-> res.url])]
    /\ UNCHANGED <<env, db, disk, clock, nextId, started, sweep>>

\* checkFiles(), after the loop: the css array; success whatever was found
checkFilesCss(p) ==
    /\ req[p].pc = "checkFiles"
    /\ Len(req[p].checked) = Len(req[p].items)
    /\ req' = [req EXCEPT ![p] =
                 [@ EXCEPT !.pc = "done", !.status = "200", !.success = TRUE,
                           !.css = cssArray(db, req[p].user)]]
    /\ UNCHANGED <<env, db, disk, clock, nextId, started, sweep>>

----------------------------------------------------------------------------
(* Cron *)

\* SELECT * FROM files WHERE expires IS NOT NULL AND expires < unixepoch()
\* every row that has an expiry, whatever the time
expired_AnySet(table, time) ==
    {r \in table : r.expires # NullNum}

expired(table, time) ==
    {r \in table : r.expires # NullNum /\ r.expires < time}

\* the rows of a result set as the list all() returns, in rowid order
RECURSIVE rowList(_)
rowList(rows) ==
    IF rows = {} THEN <<>>
    ELSE LET first == CHOOSE r \in rows : \A x \in rows : r.id <= x.id
         IN  <<first>> \o rowList(rows \ {first})

idleSweep ==
    [pc |-> "idle", self |-> "Cron", files |-> <<>>, i |-> 1, purged |-> {}]

\* `this` inside the function node-cron runs every minute. The constructor
\* registers this.deleteExpiredFiles itself, a method reference that carries
\* no receiver, so the scheduled call does not run on the Cron instance.
scheduledThis == "unbound"

\* deleteExpiredFiles: the expired rows are selected. With no row selected
\* the loop body never runs and the call returns.
selectExpired(self) ==
    /\ sweep.pc = "idle"
    /\ sweep' = [idleSweep EXCEPT
                    !.pc = IF expired(db, clock) = {} THEN "finished" ELSE "row",
                    !.self = self,
                    !.files = rowList(expired(db, clock))]
    /\ UNCHANGED <<env, db, disk, clock, nextId, started, req>>

\* the tick scheduled by the constructor: cron.schedule('* * * * *', ...)
cronTick == selectExpired(scheduledThis)

\* deleteExpiredFiles called as a method of the Cron instance
deleteExpiredFiles == selectExpired("Cron")

\* loop body, first part, for row i of the list: unlink of its file (errors
\* ignored), then its display URL goes to purgeCache. Both read this.paths:
\* without the receiver the unlink argument throws inside the try, and the
\* displayUrl call throws out of the function.
sweepUnlink ==
    LET file == sweep.files[sweep.i] IN
    /\ sweep.pc = "row"
    /\ UNCHANGED <<env, db, clock, nextId, started, req>>
    /\ IF sweep.self = "Cron"
       THEN /\ disk' = unlink(disk, fullFilePath(file.filename, file.filetype))
            /\ sweep' = [sweep EXCEPT
                            !.pc = "delete",
                            !.purged = @ \cup
                                {displayUrl(file.filename, file.filetype)}]
       ELSE /\ disk' = disk
            /\ sweep' = [sweep EXCEPT !.pc = "failed"]

\* the rows of the name and type of the file are deleted
deleteReference_ByName(table, file) ==
    {x \in table : ~(x.filename = file.filename /\ x.filetype = file.filetype)}

\* DELETE FROM files WHERE id = ?, run with file.id
deleteReference(table, file) == {x \in table : x.id # file.id}

\* loop body, second part: DELETE FROM files WHERE id = ?, then the next row
sweepDelete ==
    LET file == sweep.files[sweep.i] IN
    /\ sweep.pc = "delete"
    /\ db' = deleteReference(db, file)
    /\ sweep' = [sweep EXCEPT
                    !.i = @ + 1,
                    !.pc = IF sweep.i = Len(sweep.files) THEN "finished" ELSE "row"]
    /\ UNCHANGED <<env, disk, clock, nextId, started, req>>

\* the call has returned or thrown; the next one may start
sweepEnd ==
    /\ sweep.pc \in {"finished", "failed"}
    /\ sweep' = idleSweep
    /\ UNCHANGED <<env, db, disk, clock, nextId, started, req>>

\* the edge cache goes down or comes back
edgeChanges ==
    /\ edge' = IF edge = "up" THEN "down" ELSE "up"
    /\ UNCHANGED <<db, disk, clock, nextId, started, req, sweep, call, mapper>>

\* time passes
tick ==
    /\ clock < MaxTime
    /\ clock' = clock + 1
    /\ UNCHANGED <<env, db, disk, nextId, started, req, sweep>>

----------------------------------------------------------------------------
(* The system: concurrent requests, the sweeper and the clock *)

\* the steps of the requests in flight
Handle(p) ==
    \/ initFile(p)
    \/ recheck(p)
    \/ writeFileStep(p)
    \/ saveFile(p)
    \/ deleteFile(p)
    \/ deleteUnlink(p)
    \/ deleteRow(p)
    \/ checkFile(p)
    \/ checkCss(p)
    \/ checkFilesItem(p)
    \/ checkFilesCss(p)
    \/ respond(p)

\* every input
FullLoad ==
    [solo |-> FALSE, users |-> Users, filetypes |-> Filetypes \ {"html"},
     names |-> getHashFilename("html") \cup {NullStr}, hashes |-> Hashes,
     contents |-> Contents, expirations |-> Expirations,
     encrypted |-> BOOLEAN]

Next ==
    \/ \E p \in Procs : ReceiveCreateNote(p, FullLoad)
    \/ \E p \in Procs : ReceiveUpload(p, FullLoad)
    \/ \E p \in Procs :
         ReceiveDelete(p, [FullLoad EXCEPT !.filetypes = {"html", "png"}])
    \/ \E p \in Procs : Handle(p)
    \/ cronTick
    \/ deleteExpiredFiles
    \/ sweepUnlink
    \/ sweepDelete
    \/ sweepEnd
    \/ tick

Spec == Init /\ [][Next]_vars

----------------------------------------------------------------------------
(* Generic assets: uploads of one generic filetype, never expiring *)

AssetLoad ==
    [solo |-> FALSE, users |-> Users, filetypes |-> {"png"},
     names |-> {NullStr}, hashes |-> Hashes, contents |-> Contents,
     expirations |-> {NullNum}, encrypted |-> {FALSE}]

UploadSteps(p) ==
    \/ initFile(p)
    \/ writeFileStep(p)
    \/ saveFile(p)
    \/ respond(p)

\* overlapping uploads
NextAssets ==
    \/ \E p \in Procs : ReceiveUpload(p, AssetLoad)
    \/ \E p \in Procs : UploadSteps(p)

SpecAssets == Init /\ [][NextAssets]_vars

\* uploads one after the other
NextAssetsSeq ==
    \/ \E p \in Procs : ReceiveUpload(p, [AssetLoad EXCEPT !.solo = TRUE])
    \/ \E p \in Procs : UploadSteps(p)

SpecAssetsSeq == Init /\ [][NextAssetsSeq]_vars

----------------------------------------------------------------------------
(* Documents: createNote and deleteFile, never expiring *)

NoteLoad ==
    [solo |-> FALSE, users |-> Users, filetypes |-> {"html", "png"},
     names |-> getHashFilename("html") \cup {NullStr}, hashes |-> Hashes,
     contents |-> Contents, expirations |-> {NullNum}, encrypted |-> {FALSE}]

NoteSteps(p) ==
    \/ initFile(p)
    \/ recheck(p)
    \/ writeFileStep(p)
    \/ saveFile(p)
    \/ deleteFile(p)
    \/ deleteUnlink(p)
    \/ deleteRow(p)
    \/ respond(p)

\* overlapping requests
NextNotes ==
    \/ \E p \in Procs : ReceiveCreateNote(p, NoteLoad)
    \/ \E p \in Procs : ReceiveDelete(p, NoteLoad)
    \/ \E p \in Procs : NoteSteps(p)

SpecNotes == Init /\ [][NextNotes]_vars

\* requests one after the other
NextNotesSeq ==
    \/ \E p \in Procs : ReceiveCreateNote(p, [NoteLoad EXCEPT !.solo = TRUE])
    \/ \E p \in Procs : ReceiveDelete(p, [NoteLoad EXCEPT !.solo = TRUE])
    \/ \E p \in Procs : NoteSteps(p)

SpecNotesSeq == Init /\ [][NextNotesSeq]_vars

\* overlapping createNote and deleteFile requests on one note content
DeleteLoad == [NoteLoad EXCEPT !.contents = {"x"}, !.filetypes = {"html"}]

NextDelete ==
    \/ \E p \in Procs : ReceiveCreateNote(p, DeleteLoad)
    \/ \E p \in Procs : ReceiveDelete(p, DeleteLoad)
    \/ \E p \in Procs : NoteSteps(p)

SpecDelete == Init /\ [][NextDelete]_vars

\* notes are created one at a time; deleteFile requests overlap one another
\* but no createNote
NextOwnerDelete ==
    \/ \E p \in Procs : ReceiveCreateNote(p, [DeleteLoad EXCEPT !.solo = TRUE])
    \/ \E p \in Procs :
         /\ \A q \in Procs : req[q].op # "createNote"
         /\ ReceiveDelete(p, [NoteLoad EXCEPT !.contents = {"x"}])
    \/ \E p \in Procs : NoteSteps(p)

SpecOwnerDelete == Init /\ [][NextOwnerDelete]_vars

----------------------------------------------------------------------------
(* Stylesheets: overlapping uploads of css, never expiring *)

CssLoad ==
    [solo |-> FALSE, users |-> Users, filetypes |-> {"css"},
     names |-> {NullStr}, hashes |-> Hashes, contents |-> Contents,
     expirations |-> {NullNum}, encrypted |-> {FALSE}]

NextCss ==
    \/ \E p \in Procs : ReceiveUpload(p, CssLoad)
    \/ \E p \in Procs : UploadSteps(p)

SpecCss == Init /\ [][NextCss]_vars

----------------------------------------------------------------------------
(* Expiry: uploads of a generic asset that may expire, one at a time, the
   clock, and the sweeper, both as the constructor schedules it and called
   on the Cron instance; the steps of the sweeper interleave with those of
   the upload in flight *)

ExpiryLoad ==
    [solo |-> TRUE, users |-> {"A"}, filetypes |-> {"png"},
     names |-> {NullStr}, hashes |-> {rep(HashLen, "a"), rep(HashLen, "b")},
     contents |-> {"x"}, expirations |-> Expirations, encrypted |-> {FALSE}]

NextExpiry ==
    \/ \E p \in Procs : ReceiveUpload(p, ExpiryLoad)
    \/ \E p \in Procs : UploadSteps(p)
    \/ cronTick
    \/ deleteExpiredFiles
    \/ sweepUnlink
    \/ sweepDelete
    \/ sweepEnd
    \/ tick

SpecExpiry == Init /\ [][NextExpiry]_vars

\* node-cron starts the scheduled function every minute, and a call that has
\* started runs on to its return or its exception
SpecExpiryFair ==
    /\ Init
    /\ [][NextExpiry]_vars
    /\ WF_vars(cronTick)
    /\ WF_vars(sweepUnlink)
    /\ WF_vars(sweepDelete)
    /\ WF_vars(sweepEnd)

----------------------------------------------------------------------------
(* Notes that expire: createNote and deleteFile of one user, one request at
   a time, while the sweeper runs *)

ExpiringNotesLoad ==
    [solo |-> TRUE, users |-> {"A"}, filetypes |-> {"html"},
     names |-> {NullStr}, hashes |-> {rep(HashLen, "a")}, contents |-> {"x"},
     expirations |-> Expirations, encrypted |-> {FALSE}]

NextExpiringNotes ==
    \/ \E p \in Procs : ReceiveCreateNote(p, ExpiringNotesLoad)
    \/ \E p \in Procs :
         ReceiveDelete(p, [ExpiringNotesLoad EXCEPT
                              !.names = getHashFilename("html")])
    \/ \E p \in Procs : NoteSteps(p)
    \/ cronTick
    \/ deleteExpiredFiles
    \/ sweepUnlink
    \/ sweepDelete
    \/ sweepEnd
    \/ tick

SpecExpiringNotes == Init /\ [][NextExpiringNotes]_vars

----------------------------------------------------------------------------
(* One note and three requests of its owner in flight: the note is stored
   (the state after one createNote of user A), then createNote under its
   name and deleteFile requests overlap *)

Slots == Procs \cup {3}

storedNote ==
    [id |-> 1, users_id |-> "A", filename |-> rep(HtmlNameLen, "a"),
     filetype |-> "html", hash |-> sha1(noteContents("x")),
     bytes |-> byteLength(noteContents("x")), encrypted |-> 0,
     expires |-> NullNum, created |-> 0, updated |-> 0]

InitNoteStored ==
    /\ db = {storedNote}
    /\ disk = [path \in {fullFilePath(storedNote.filename, "html")}
                 |-> noteContents("x")]
    /\ clock = 0
    /\ nextId = 2
    /\ started = 0
    /\ req = [p \in Slots |-> idleReq]
    /\ sweep = idleSweep
    /\ edge = "up"
    /\ call = noCall
    /\ mapper = newMapper

BusyNoteLoad ==
    [solo |-> FALSE, users |-> {"A"}, filetypes |-> {"html"},
     names |-> {storedNote.filename}, hashes |-> {rep(HashLen, "a")},
     contents |-> {"x"}, expirations |-> {NullNum}, encrypted |-> {FALSE}]

NextBusyNote ==
    \/ \E p \in Slots : ReceiveCreateNote(p, BusyNoteLoad)
    \/ \E p \in Slots : ReceiveDelete(p, BusyNoteLoad)
    \/ \E p \in Slots : NoteSteps(p)

SpecBusyNote == InitNoteStored /\ [][NextBusyNote]_vars

----------------------------------------------------------------------------
(* Names sent by clients: overlapping createNote, initFile(false) and
   deleteFile requests that send no name, a name getHashFilename can return,
   or a well-formed name that getHashFilename never returns here *)

chosenName == rep(HtmlNameLen, "c")

ChosenNamesLoad ==
    [solo |-> FALSE, users |-> Users, filetypes |-> {"html"},
     names |-> {NullStr, rep(HtmlNameLen, "a"), chosenName},
     hashes |-> {rep(HashLen, "a")}, contents |-> {"x"},
     expirations |-> {NullNum}, encrypted |-> {FALSE}]

NextChosenNames ==
    \/ \E p \in Procs : ReceiveCreateNote(p, ChosenNamesLoad)
    \/ \E p \in Procs : ReceiveInitFile(p, ChosenNamesLoad)
    \/ \E p \in Procs : ReceiveDelete(p, ChosenNamesLoad)
    \/ \E p \in Procs : NoteSteps(p)

SpecChosenNames == Init /\ [][NextChosenNames]_vars

----------------------------------------------------------------------------
(* Identity resolution: createNote, upload and initFile(false), one at a
   time, with well-formed and malformed filetypes, hashes and filenames *)

\* a hash of the right length with one character outside [a-f0-9]
hashWith(c) == [i \in 1..HashLen |-> IF i = 1 THEN c ELSE "a"]

ResolveLoad ==
    [solo |-> TRUE, users |-> Users,
     filetypes |-> {"html", "css", "png", "exe", ""},
     names |-> {NullStr, rep(HtmlNameLen, "a"),
                rep(HtmlNameLen, "b") \o <<".", "h", "t", "m", "l">>,
                <<"a", "-", "b">>, <<"A", "b">>, <<".", "x">>},
     hashes |-> {rep(HashLen, "a"), <<"a">>, hashWith("g"), hashWith("A")},
     contents |-> {"x"}, expirations |-> {NullNum}, encrypted |-> {FALSE}]

ResolveSteps(p) ==
    \/ initFile(p)
    \/ recheck(p)
    \/ writeFileStep(p)
    \/ saveFile(p)
    \/ respond(p)

NextResolve ==
    \/ \E p \in Procs : ReceiveCreateNote(p, ResolveLoad)
    \/ \E p \in Procs : ReceiveUpload(p, ResolveLoad)
    \/ \E p \in Procs : ReceiveInitFile(p, ResolveLoad)
    \/ \E p \in Procs : ResolveSteps(p)

SpecResolve == Init /\ [][NextResolve]_vars

----------------------------------------------------------------------------
(* Persisting: createNote and upload, one at a time, with writes that may
   fail and an edge cache that may be down *)

PersistLoad ==
    [solo |-> TRUE, users |-> Users, filetypes |-> {"png", "css"},
     names |-> {NullStr}, hashes |-> {rep(HashLen, "a")}, contents |-> {"x"},
     expirations |-> {NullNum}, encrypted |-> {FALSE}]

NextPersist ==
    \/ \E p \in Procs : ReceiveCreateNote(p, PersistLoad)
    \/ \E p \in Procs : ReceiveUpload(p, PersistLoad)
    \/ \E p \in Procs : ResolveSteps(p)
    \/ edgeChanges

SpecPersist == Init /\ [][NextPersist]_vars

----------------------------------------------------------------------------
(* Calls of initFile: requests with and without a hash, and initFile called
   a second time on the same controller *)

CallsLoad ==
    [solo |-> TRUE, users |-> Users, filetypes |-> {"css", "png"},
     names |-> {NullStr, rep(HtmlNameLen, "a")},
     hashes |-> {rep(HashLen, "a"), NullStr},
     contents |-> {"x"}, expirations |-> {NullNum}, encrypted |-> {FALSE}]

NextCalls ==
    \/ \E p \in Procs : ReceiveCreateNote(p, CallsLoad)
    \/ \E p \in Procs : ReceiveUpload(p, CallsLoad)
    \/ \E p \in Procs :
          ReceiveInitFile(p, [CallsLoad EXCEPT !.filetypes = @ \cup {"html"}])
    \/ \E p \in Procs : ResolveSteps(p)
    \/ \E p \in Procs : initFileAgain(p)

SpecCalls == Init /\ [][NextCalls]_vars

----------------------------------------------------------------------------
(* Paths: one call of the methods of a Paths built on an App with any
   folderPrefix, for any filename and filetype *)

PathFilenames ==
    {<<"a", "b", "1", "2", "3", "4">>, <<"a">>, <<"z", "9">>,
     rep(HtmlNameLen, "a"), rep(DefaultNameLen, "b"),
     getCssFilename("A") \o hashSuffix(rep(HashLen, "a"))}

PathFiletypes == {"html", "css", "png", "ttf"}

InitPaths ==
    /\ db = {}
    /\ disk = <<>>
    /\ clock = 0
    /\ nextId = 1
    /\ started = 0
    /\ req = [p \in Procs |-> idleReq]
    /\ sweep = idleSweep
    /\ edge = "up"
    /\ mapper = newMapper
    /\ \E P \in 0..MaxPrefix, filename \in PathFilenames,
          extension \in PathFiletypes :
         call = [noCall EXCEPT !.pc = "called",
                               !.app = [appInstance EXCEPT !.folderPrefix = P],
                               !.filename = filename,
                               !.extension = extension]

\* fullFilePath, displayUrl and fileUrl are called and return
PathsCall ==
    /\ call.pc = "called"
    /\ call' = [call EXCEPT
                  !.pc = "returned",
                  !.folder = Paths_folder(call.app, call.filename, call.extension),
                  !.filePath =
                      Paths_fullFilePath(call.app, call.filename, call.extension),
                  !.displayUrl =
                      Paths_displayUrl(call.app, call.filename, call.extension),
                  !.fileUrl =
                      Paths_fileUrl(call.app, call.filename, call.extension)]
    /\ UNCHANGED <<db, disk, clock, nextId, started, req, sweep, edge, mapper>>

SpecPaths == InitPaths /\ [][PathsCall]_vars

----------------------------------------------------------------------------
(* Paths: fullFilePath called for two (filename, filetype) pairs on one
   Paths, for any folderPrefix *)

\* filenames that pass the filename check, some of them spelt like a bucket,
\* a filetype or the tail of one, and names of the generators
PairFilenames ==
    {<<"a">>, <<"a", "b">>, <<"a", "2">>, <<"c", "s", "s">>,
     <<"f", "i", "l", "e", "s">>, <<"j", "p", "g">>,
     rep(HtmlNameLen, "a"), rep(DefaultNameLen, "a")}

PairFiletypes == {"html", "css", "jpg", "jpeg", "woff", "woff2"}

InitPathPairs ==
    /\ db = {}
    /\ disk = <<>>
    /\ clock = 0
    /\ nextId = 1
    /\ started = 0
    /\ req = [p \in Procs |-> idleReq]
    /\ sweep = idleSweep
    /\ edge = "up"
    /\ mapper = newMapper
    /\ \E P \in 0..MaxPrefix,
          filename \in PairFilenames, extension \in PairFiletypes,
          filename2 \in PairFilenames, extension2 \in PairFiletypes :
         call = [noCall EXCEPT !.pc = "called twice",
                               !.app = [appInstance EXCEPT !.folderPrefix = P],
                               !.filename = filename,
                               !.extension = extension,
                               !.filename2 = filename2,
                               !.extension2 = extension2]

\* both calls of fullFilePath return
PathPairCall ==
    /\ call.pc = "called twice"
    /\ call' = [call EXCEPT
                  !.pc = "returned twice",
                  !.filePath =
                      Paths_fullFilePath(call.app, call.filename, call.extension),
                  !.filePath2 =
                      Paths_fullFilePath(call.app, call.filename2, call.extension2)]
    /\ UNCHANGED <<db, disk, clock, nextId, started, req, sweep, edge, mapper>>

SpecPathPairs == InitPathPairs /\ [][PathPairCall]_vars

----------------------------------------------------------------------------
(* getHashFilename: one call, for any filetype and random bytes *)

\* a Uint8Array element
MaxByte == 255

\* the digits of Number.prototype.toString(36)
Base36 ==
    <<"0", "1", "2", "3", "4", "5", "6", "7", "8", "9",
      "a", "b", "c", "d", "e", "f", "g", "h", "i", "j", "k", "l", "m",
      "n", "o", "p", "q", "r", "s", "t", "u", "v", "w", "x", "y", "z">>

\* n.toString(36) of an integer n >= 0
RECURSIVE toString36(_)
toString36(n) ==
    IF n < 36 THEN <<Base36[n + 1]>>
    ELSE toString36(n \div 36) \o <<Base36[(n % 36) + 1]>>

\* the scaling rounds up
scaled_Ceil(byte) == (byte * 36 + 255) \div 256

\* Math.floor(byte * 0.140625): 0.140625 is 36 / 256 exactly, and so is the
\* product in floating point
scaled(byte) == (byte * 36) \div 256

\* the loop of getHashFilename over the bytes drawn
RECURSIVE nameOf(_)
nameOf(bytes) ==
    IF bytes = <<>> THEN <<>>
    ELSE toString36(scaled(Head(bytes))) \o nameOf(Tail(bytes))

NameFiletypes == {"html", "css", "png", "ttf"}

\* the draws of crypto.getRandomValues taken: any byte first, then a byte
\* of the second draw, then the first again, and so on
randomValues(length, b, c) ==
    [i \in 1..length |-> IF i % 2 = 1 THEN b ELSE c]

InitNames ==
    /\ db = {}
    /\ disk = <<>>
    /\ clock = 0
    /\ nextId = 1
    /\ started = 0
    /\ req = [p \in Procs |-> idleReq]
    /\ sweep = idleSweep
    /\ edge = "up"
    /\ mapper = newMapper
    /\ \E extension \in NameFiletypes, b \in 0..MaxByte, c \in {0, 7, MaxByte} :
         call = [noCall EXCEPT
                    !.pc = "drawn",
                    !.extension = extension,
                    !.bytes = randomValues(filenameLength(extension), b, c)]

\* getHashFilename builds the name from the bytes and returns it
NameCall ==
    /\ call.pc = "drawn"
    /\ call' = [call EXCEPT !.pc = "named", !.filename = nameOf(call.bytes)]
    /\ UNCHANGED <<db, disk, clock, nextId, started, req, sweep, edge, mapper>>

SpecNames == InitNames /\ [][NameCall]_vars

----------------------------------------------------------------------------
(* The Row Mapper: set, load and save called in any order on one mapper of
   table `files`, while rows are deleted by other statements *)

\* set(params): the given fields of the in-memory row are overwritten
set(row, params) ==
    [k \in DOMAIN row |-> IF k \in DOMAIN params THEN params[k] ELSE row[k]]

SetParams ==
    {[users_id |-> "A", filename |-> <<"a">>, filetype |-> "png"],
     [filename |-> <<"b">>],
     [hash |-> rep(HashLen, "a"), bytes |-> 1]}

LoadParams ==
    {[filename |-> <<"a">>, filetype |-> "png"],
     [filename |-> <<"b">>],
     [users_id |-> "A"]}

called(m, name, params) ==
    [m EXCEPT !.calls = Append(@, name), !.params = params]

mapperSet ==
    /\ Len(mapper.calls) < MaxCalls
    /\ \E params \in SetParams :
         mapper' = [called(mapper, "set", params) EXCEPT
                       !.row = set(mapper.row, params)]
    /\ UNCHANGED <<db, disk, clock, nextId, started, req, sweep, edge, call>>

mapperLoad ==
    /\ Len(mapper.calls) < MaxCalls
    /\ \E params \in LoadParams : \E row \in load(db, params) :
         mapper' = [called(mapper, "load", params) EXCEPT !.row = row]
    /\ UNCHANGED <<db, disk, clock, nextId, started, req, sweep, edge, call>>

mapperSave ==
    /\ Len(mapper.calls) < MaxCalls
    /\ IF saveOk(db, mapper.row)
       THEN /\ db' = saveTable(db, mapper.row, nextId)
            /\ nextId' = IF notFound(mapper.row) THEN nextId + 1 ELSE nextId
            /\ mapper' = [called(mapper, "save", <<>>) EXCEPT
                             !.row = savedRow(mapper.row, nextId),
                             !.returned = TRUE]
       ELSE /\ UNCHANGED <<db, nextId>>
            /\ mapper' = [called(mapper, "save", <<>>) EXCEPT
                             !.returned = FALSE]
    /\ UNCHANGED <<disk, clock, started, req, sweep, edge, call>>

\* a row is deleted by another statement (deleteFile, the sweeper)
rowDeleted ==
    /\ \E x \in db : db' = deleteReference(db, x)
    /\ UNCHANGED <<disk, clock, nextId, started, req, sweep, edge, call, mapper>>

NextMapper ==
    \/ mapperSet
    \/ mapperLoad
    \/ mapperSave
    \/ rowDeleted

SpecMapper == Init /\ [][NextMapper]_vars

----------------------------------------------------------------------------
(* Checks: checkFile, checkCss and checkFiles of both users, overlapping
   with each other and with the uploads and notes, one at a time, that fill
   the index *)

\* the uploads and notes that fill the index
CheckedLoad ==
    [solo |-> TRUE, users |-> Users, filetypes |-> {"css", "png"},
     names |-> {NullStr}, hashes |-> {rep(HashLen, "a")},
     contents |-> {"x"}, expirations |-> {NullNum}, encrypted |-> {FALSE}]

\* the checks: any filetype or none, a hash an upload sends, the hash of the
\* rendered note, or none; lists of up to two files
CheckLoad ==
    [solo |-> FALSE, users |-> Users, filetypes |-> Filetypes \cup {""},
     hashes |-> {rep(HashLen, "a"), sha1(noteContents("x")), NullStr},
     lists |-> {<<>>,
                <<[filetype |-> "png", hash |-> NullStr]>>,
                <<[filetype |-> "css", hash |-> rep(HashLen, "a")],
                  [filetype |-> "png", hash |-> rep(HashLen, "a")]>>,
                <<[filetype |-> "html", hash |-> sha1(noteContents("x"))],
                  [filetype |-> "css", hash |-> rep(HashLen, "b")]>>}]

NextChecks ==
    \/ \E p \in Procs : ReceiveUpload(p, CheckedLoad)
    \/ \E p \in Procs : ReceiveCreateNote(p, CheckedLoad)
    \/ \E p \in Procs : ReceiveCheckFile(p, CheckLoad)
    \/ \E p \in Procs : ReceiveCheckCss(p, CheckLoad)
    \/ \E p \in Procs : ReceiveCheckFiles(p, CheckLoad)
    \/ \E p \in Procs : UploadSteps(p)
    \/ \E p \in Procs : checkFile(p)
    \/ \E p \in Procs : checkCss(p)
    \/ \E p \in Procs : checkFilesItem(p)
    \/ \E p \in Procs : checkFilesCss(p)

SpecChecks == Init /\ [][NextChecks]_vars

----------------------------------------------------------------------------
(* Properties *)

\* a generic asset: neither a document nor a stylesheet
generic(filetype) == filetype \notin {"html", "css"}

\* request p takes the step
steps(p) == req'[p] # req[p]

\* the rows of an identity key of the generic category
sameAsset(table, filetype, hash) ==
    Matching(table, [filetype |-> filetype, hash |-> hash])

\* C1: once an upload of a generic asset has found a row with its
\* (filetype, hash), none of its steps writes: the table and the disk stay
\* as they are and nothing is handed to purgeCache.
C1_ShortCircuitWritesNothing ==
    [][\A p \in Procs :
         (/\ req[p].op = "upload"
          /\ generic(req[p].extension)
          /\ req[p].pc \in {"writeFile", "save"}
          /\ req[p].file \in sameAsset(db, req[p].extension, req[p].hash)
          /\ steps(p))
         => /\ db' = db
            /\ disk' = disk
            /\ req'[p].purged = req[p].purged]_vars

\* C2: no two rows of the table share (filename, filetype).
C2_IndexUnique ==
    \A r1 \in db, r2 \in db :
        (r1.filename = r2.filename /\ r1.filetype = r2.filetype) => r1 = r2

C6_StoredOnce ==
    (\A p \in Procs : req[p].pc = "idle")
        => \A r1 \in db, r2 \in db :
             (/\ generic(r1.filetype)
              /\ r1.filetype = r2.filetype
              /\ r1.hash = r2.hash) => r1 = r2

\* the html rows under the name a createNote request sent that belong to
\* another user
othersNote(table, r) ==
    {x \in table : /\ x.filetype = "html"
                   /\ x.filename = r.post.filename
                   /\ x.users_id # r.user}

\* the bytes at a path, "" for no file
bytesAt(fs, path) == IF path \in DOMAIN fs THEN fs[path] ELSE ""

\* C3, as claimed: a createNote that sent the name of another user's note
\* leaves initFile settled on a different name (it is not turned away), and
\* no step of it changes that user's row or file.
C3_SettlesOnOtherName ==
    [][\A p \in Procs :
         LET r == req[p] IN
         (/\ r.op = "createNote"
          /\ r.post.filename # NullStr
          /\ othersNote(db, r) # {}
          /\ steps(p))
         => /\ othersNote(db, r) \subseteq db'
            /\ bytesAt(disk', fullFilePath(r.post.filename, "html"))
                 = bytesAt(disk, fullFilePath(r.post.filename, "html"))
            /\ r.pc = "recheck"
                 => /\ req'[p].pc = "writeFile"
                    /\ req'[p].filename # r.post.filename]_vars

\* C3, amended: such a request is either turned away with 403 at the second
\* lookup or settles on a different name; no step of it changes the other
\* user's row or file.
C3_OtherNameOr403 ==
    [][\A p \in Procs :
         LET r == req[p] IN
         (/\ r.op = "createNote"
          /\ r.post.filename # NullStr
          /\ othersNote(db, r) # {}
          /\ steps(p))
         => /\ othersNote(db, r) \subseteq db'
            /\ bytesAt(disk', fullFilePath(r.post.filename, "html"))
                 = bytesAt(disk, fullFilePath(r.post.filename, "html"))
            /\ r.pc = "recheck"
                 => \/ req'[p].pc = "done" /\ req'[p].status = "403"
                    \/ /\ req'[p].pc = "writeFile"
                       /\ req'[p].filename # r.post.filename
            /\ req'[p].pc \in {"writeFile", "save"}
                 => req'[p].filename # r.post.filename
            /\ (req'[p].pc = "done" /\ req'[p].status = "200")
                 => req'[p].url # displayUrl(r.post.filename, "html")]_vars

\* C3 witness: a createNote that sent the name of another user's note has
\* been saved under another name, next to that note
C3_Witness ==
    \E p \in Procs :
        /\ req[p].op = "createNote"
        /\ req[p].pc = "done"
        /\ req[p].status = "200"
        /\ req[p].post.filename # NullStr
        /\ othersNote(db, req[p]) # {}
        /\ req[p].filename # req[p].post.filename
        /\ req[p].file \in db

\* C4: no two html rows of one filename belong to different users.
C4_OwnerBound ==
    \A r1 \in db, r2 \in db :
        (/\ r1.filetype = "html"
         /\ r2.filetype = "html"
         /\ r1.filename = r2.filename) => r1.users_id = r2.users_id

\* C10: a deleteFile for an html name under which the caller owns no row
\* changes neither the table nor the disk, hands nothing to purgeCache and
\* returns success.
C10_NonOwnerDeleteNoOp ==
    [][\A p \in Procs :
         LET r == req[p] IN
         (/\ r.op = "deleteFile"
          /\ r.post.filetype = "html"
          /\ checkStatus(r.post) = ""
          /\ ~\E x \in db : /\ x.filetype = "html"
                            /\ x.filename = checkedFilename(r)
                            /\ x.users_id = r.user
          /\ r.pc = "deleteFile"
          /\ steps(p))
         => /\ db' = db
            /\ disk' = disk
            /\ req'[p].pc = "done"
            /\ req'[p].status = "200"
            /\ req'[p].purged = {}]_vars

\* C10 witness: a deleteFile has returned on a note of another user, which
\* is still there with its file
C10_Witness ==
    \E p \in Procs :
        /\ req[p].op = "deleteFile"
        /\ req[p].pc = "done"
        /\ req[p].status = "200"
        /\ req[p].purged = {}
        /\ \E x \in db : /\ x.filetype = "html"
                         /\ x.filename = req[p].filename
                         /\ x.users_id # req[p].user
                         /\ fullFilePath(x.filename, "html") \in DOMAIN disk

\* the css rows of the user of request r, other than those with r's hash
otherChunks(table, r) ==
    {x \in table : /\ x.filetype = "css"
                   /\ Like(x.filename, getCssFilename(r.user))
                   /\ x.hash # r.hash}

\* the css rows of the user of request r with r's hash
sameChunk(table, r) ==
    {x \in table : /\ x.filetype = "css"
                   /\ Like(x.filename, getCssFilename(r.user))
                   /\ x.hash = r.hash}

\* what C7 says of a css upload r with respect to the user's rows `others`
\* of other hashes: the name it settles on starts with the user's prefix
\* and is none of theirs, its steps leave those rows and their files as
\* they are, and when a row with its hash exists it settles on that row's
\* name and adds no row.
chunking(p, others) ==
    LET r == req[p] IN
    /\ others \subseteq db'
    /\ \A x \in others :
         bytesAt(disk', fullFilePath(x.filename, "css"))
           = bytesAt(disk, fullFilePath(x.filename, "css"))
    /\ req'[p].pc \in {"writeFile", "save"}
         => /\ Like(req'[p].filename, getCssFilename(r.user))
            /\ \A x \in others : req'[p].filename # x.filename
    /\ (r.pc = "upload" /\ sameChunk(db, r) # {} /\ req'[p].pc = "writeFile")
         => req'[p].filename \in {x.filename : x \in sameChunk(db, r)}
    /\ (r.pc = "save" /\ found(r.file)) => Cardinality(db') = Cardinality(db)

\* C7, as claimed: for any two distinct hashes
C7_Chunking ==
    [][\A p \in Procs :
         (req[p].op = "upload" /\ req[p].post.filetype = "css" /\ steps(p))
         => chunking(p, otherChunks(db, req[p]))]_vars

\* the two hashes differ somewhere in their first eight characters
differEarly(h1, h2) == \E i \in 1..8 : h1[i] # h2[i]

\* C7, amended: for two hashes that differ within their first 8 characters
C7_ChunkingDistinctSuffix ==
    [][\A p \in Procs :
         (req[p].op = "upload" /\ req[p].post.filetype = "css" /\ steps(p))
         => chunking(p, {x \in otherChunks(db, req[p]) :
                            differEarly(x.hash, req[p].hash)})]_vars

\* C7 witness: a user has two stylesheets under two names, both on disk,
\* and initFile has just settled a further upload of the user on the row and
\* the name of one of the two
C7_Witness ==
    \E p \in Procs, x \in db, y \in db :
        /\ req[p].op = "upload"
        /\ req[p].pc = "writeFile"
        /\ req[p].file = x
        /\ req[p].filename = x.filename
        /\ x.filetype = "css" /\ y.filetype = "css"
        /\ x.users_id = req[p].user /\ y.users_id = req[p].user
        /\ x.filename # y.filename
        /\ Like(x.filename, getCssFilename(req[p].user))
        /\ Like(y.filename, getCssFilename(req[p].user))
        /\ fullFilePath(x.filename, "css") \in DOMAIN disk
        /\ fullFilePath(y.filename, "css") \in DOMAIN disk

\* the sweep in progress is the call the constructor scheduled
scheduled == sweep.self = scheduledThis

\* C8: when a tick scheduled by the constructor is over, every row it
\* selected as expired is gone from the table, its file is gone from the
\* disk and its display URL has been handed to purgeCache.
C8_SweepEffect ==
    (scheduled /\ sweep.pc \in {"finished", "failed"})
        => \A k \in 1..Len(sweep.files) :
             LET file == sweep.files[k] IN
             /\ ~\E x \in db : x.id = file.id
             /\ fullFilePath(file.filename, file.filetype) \notin DOMAIN disk
             /\ displayUrl(file.filename, file.filetype) \in sweep.purged

\* the rows a step takes out of the table
removed == {x \in db : ~\E y \in db' : y.id = x.id}

\* the row the sweeper is working on
current == sweep.files[sweep.i]

bucket(filetype) ==
    IF filetype = "html" THEN "notes"
    ELSE IF filetype = "css" THEN "css" ELSE "files"

\* "/" and the first P characters of the filename; nothing when P = 0
shard(P, filename) ==
    IF P = 0 THEN <<>>
    ELSE <<"/">> \o [i \in 1..(IF P < Len(filename) THEN P ELSE Len(filename))
                        |-> filename[i]]

entering(p) == req[p].pc \in {"createNote", "upload", "initFile"}

\* the filetype posted is not in the whitelist
badFiletype(post) == post.filetype \notin fileExtensionWhitelist

\* the hash posted is not 40 characters of [a-f0-9]
badHash(post) ==
    \/ Len(post.hash) # 40
    \/ \E i \in 1..Len(post.hash) : post.hash[i] \notin HexDigits

\* the filename posted, up to its first dot
stem(filename) ==
    IF \E i \in 1..Len(filename) : filename[i] = "."
    THEN LET dot == CHOOSE i \in 1..Len(filename) :
                       /\ filename[i] = "."
                       /\ \A j \in 1..(i - 1) : filename[j] # "."
         IN  [i \in 1..(dot - 1) |-> filename[i]]
    ELSE filename

\* a filename was posted and its stem is empty or not lowercase alphanumeric
badFilename(post) ==
    /\ post.filename # NullStr
    /\ \/ stem(post.filename) = <<>>
       \/ \E i \in 1..Len(stem(post.filename)) :
             stem(post.filename)[i] \notin LowerAlnum

\* request p is turned away by the step, with this status, before any lookup,
\* disk access or purge
turnedAway(p, status) ==
    /\ req'[p].pc = "done"
    /\ req'[p].status = status
    /\ req'[p].file = emptyRow
    /\ req'[p].purged = {}
    /\ db' = db
    /\ disk' = disk

Rejections == {"400", "403", "404", "415", "463"}

\* request p is in initFile
resolving(p) == req[p].pc \in {"createNote", "upload", "initFile", "recheck"}

\* C17: no step of initFile changes the table or the disk or hands anything
\* to purgeCache; a request initFile rejects is over, and the only step
\* left to it is its response, which changes nothing either.
C17_NoPartialState ==
    [][\A p \in Procs :
         /\ (resolving(p) /\ steps(p))
              => /\ db' = db
                 /\ disk' = disk
                 /\ req'[p].purged = {}
                 /\ req'[p].status \in Rejections => req'[p].pc = "done"
         /\ (req[p].pc = "done" /\ req[p].status \in Rejections /\ steps(p))
              => /\ req'[p] = idleReq
                 /\ db' = db
                 /\ disk' = disk]_vars

\* C17 witness: initFile(false) has been rejected with 404 for a generic
\* asset while the table holds rows and the disk their files
C17_Witness ==
    \E p \in Procs :
        /\ req[p].op = "initFile"
        /\ req[p].pc = "done"
        /\ req[p].status = "404"
        /\ req[p].purged = {}
        /\ db # {}
        /\ \A x \in db : fullFilePath(x.filename, x.filetype) \in DOMAIN disk

\* no row matches the identity request r asks for: (filename, html) for a
\* document, the user's prefix and the hash for a stylesheet, (filetype,
\* hash) for a generic asset
noMatch(table, r) ==
    LET post == r.post IN
    IF post.filetype = "html"
    THEN ~\E x \in table : x.filetype = "html" /\ x.filename = stem(post.filename)
    ELSE IF post.filetype = "css"
    THEN ~\E x \in table : /\ x.filetype = "css"
                            /\ Like(x.filename, getCssFilename(r.user))
                            /\ x.hash = post.hash
    ELSE ~\E x \in table : x.filetype = post.filetype /\ x.hash = post.hash

\* C19: initFile(false) on a well-formed request that no row matches is
\* rejected with 404, whatever the category.
C19_NotFound404 ==
    [][\A p \in Procs :
         LET r == req[p] IN
         (/\ r.pc = "initFile"
          /\ ~badHash(r.post) /\ ~badFiletype(r.post) /\ ~badFilename(r.post)
          /\ noMatch(db, r)
          /\ steps(p))
         => /\ req'[p].pc = "done"
            /\ req'[p].status = "404"]_vars

\* C20: when initFile has completed for html, the row it loaded under the
\* name it settled on is the blank row or a row of the requesting user; a
\* name generated after an ownership conflict that belongs to another
\* user's row ends the request with 403, and the second lookup writes
\* nothing.
C20_SettledOnOwnOrNew ==
    [][\A p \in Procs :
         LET r == req[p] IN
         (r.pc = "recheck" /\ steps(p))
         => /\ db' = db
            /\ disk' = disk
            /\ req'[p].purged = {}
            /\ (\E x \in db : /\ x.filetype = "html"
                               /\ x.filename = r.filename
                               /\ x.users_id # r.user)
                 => /\ req'[p].pc = "done"
                    /\ req'[p].status = "403"
            /\ req'[p].status # "403"
                 => /\ req'[p].initialised
                    /\ req'[p].filename = r.filename
                    /\ req'[p].file \in load(db, [filename |-> r.filename,
                                                  filetype |-> "html"])
                    /\ \/ notFound(req'[p].file)
                       \/ req'[p].file.users_id = r.user]_vars

\* C20 witness: a createNote that sent the name of another user's note was
\* given a generated name that is another user's too, and has ended with
\* 403; the table and the disk hold that user's notes
C20_Witness ==
    \E p \in Procs :
        /\ req[p].op = "createNote"
        /\ req[p].pc = "done"
        /\ req[p].status = "403"
        /\ req[p].post.filename # NullStr
        /\ req[p].filename # stem(req[p].post.filename)
        /\ found(req[p].file)
        /\ req[p].file.users_id # req[p].user
        /\ req[p].file \in db
        /\ req[p].purged = {}

\* the html rows under a filename
notesNamed(table, filename) ==
    {x \in table : x.filetype = "html" /\ x.filename = filename}

\* C11: a deleteFile for an html name whose row the caller owns goes on to
\* unlink the file, which is gone afterwards whether it was there or not,
\* and to hand the display URL to purgeCache while the row is still in the
\* table; when it returns, no html row of that name is left, the file is
\* absent and the result is success. A deleteFile for another filetype is
\* rejected with 404 and changes nothing.
C11_OwnerDelete ==
    [][\A p \in Procs :
         LET r == req[p]
             path == fullFilePath(r.filename, "html")
             url == displayUrl(r.filename, "html")
         IN
         (r.op = "deleteFile" /\ steps(p))
         => /\ (r.pc = "deleteFile" /\ r.post.filetype # "html")
                 => /\ req'[p].pc = "done"
                    /\ req'[p].status = "404"
                    /\ req'[p].purged = {}
                    /\ db' = db
                    /\ disk' = disk
            /\ (/\ r.pc = "deleteFile"
                /\ r.post.filetype = "html"
                /\ ~badFilename(r.post)
                /\ notesNamed(db, stem(r.post.filename)) # {}
                /\ \A x \in notesNamed(db, stem(r.post.filename)) :
                      x.users_id = r.user)
                 => /\ req'[p].pc = "unlink"
                    /\ req'[p].filename = stem(r.post.filename)
            /\ r.pc = "unlink"
                 => /\ path \notin DOMAIN disk'
                    /\ url \in req'[p].purged
                    /\ db' = db
            /\ r.pc = "deleteRow"
                 => /\ url \in r.purged
                    /\ notesNamed(db', r.filename) = {}
                    /\ path \notin DOMAIN disk'
                    /\ req'[p].pc = "done"
                    /\ req'[p].status = "200"]_vars

\* C11 witness: two deleteFile requests of the owner for one note have both
\* returned success after unlinking and purging (the file was already gone
\* for the one that came second); no row of the name is left and the file
\* is absent
C11_Witness ==
    /\ \A p \in Procs :
          /\ req[p].op = "deleteFile"
          /\ req[p].pc = "done"
          /\ req[p].status = "200"
          /\ displayUrl(req[p].filename, "html") \in req[p].purged
    /\ \A p \in Procs, q \in Procs : req[p].filename = req[q].filename
    /\ \A p \in Procs :
          /\ notesNamed(db, req[p].filename) = {}
          /\ fullFilePath(req[p].filename, "html") \notin DOMAIN disk

----------------------------------------------------------------------------
(* Persisting: the write comes before the index *)

persisting(r) == r.op \in {"createNote", "upload"}

\* C12: in a createNote or an upload the bytes are written before the row is
\* upserted. The write step either leaves the content at the resolved path
\* and goes on to the save, or ends the request with the save error and
\* leaves the table, the disk and the list of purged URLs as they were; it
\* never changes the table. The table is changed by a request only in the
\* save step, which is reached only from a write that succeeded, with the
\* content on disk.
C12_WriteBeforeIndex ==
    [][\A p \in Procs :
          LET r == req[p]
              path == fullFilePath(r.filename, r.extension)
          IN  (persisting(r) /\ steps(p)) =>
                /\ r.pc = "writeFile" =>
                      /\ db' = db
                      /\ \/ /\ req'[p].pc = "save"
                            /\ path \in DOMAIN disk'
                            /\ disk'[path] = r.contents
                         \/ /\ req'[p].pc = "done"
                            /\ req'[p].status = saveError(r)
                            /\ disk' = disk
                            /\ req'[p].purged = r.purged
                /\ req'[p].pc = "save" => r.pc = "writeFile"
                /\ db' # db => r.pc = "save"]_vars

\* C12 witness: a request that had settled on a row of the table ended with
\* the save error at the write: nothing was purged, the row is as it was
C12_Witness ==
    \E p \in Procs :
        /\ persisting(req[p])
        /\ req[p].pc = "done"
        /\ req[p].status = saveError(req[p])
        /\ req[p].purged = {}
        /\ found(req[p].file)
        /\ req[p].file \in db

----------------------------------------------------------------------------
(* The sweeper: progress *)

staysExpired(id) == \E x \in expired(db, clock) : x.id = id

\* C14: with the scheduled tick running again and again, no row stays
\* expired in the table for ever: a row that is expired is in the end
\* removed (or stops being expired).
C14_ExpiredRowsGo ==
    \A id \in 1..MaxReqs : staysExpired(id) ~> ~staysExpired(id)

----------------------------------------------------------------------------
(* The hash of a row and the bytes of its file *)

\* C15: whenever no request is in flight, the hash of every row is the sha1
\* digest of the bytes stored at the path of the row.
C15_HashMatchesBytes ==
    (\A p \in Procs : req[p].pc = "idle") =>
        \A x \in db :
            LET path == fullFilePath(x.filename, x.filetype) IN
            path \in DOMAIN disk => x.hash = sha1(disk[path])

----------------------------------------------------------------------------
(* Calls of initFile *)

\* C21: initFile for a stylesheet with no hash succeeds, and the filename is
\* the bare prefix of the user.
C21_LegacyStylesheet ==
    [][\A p \in Procs :
          LET r == req[p] IN
          (/\ r.pc \in {"upload", "initFile"}
           /\ r.post.filetype = "css"
           /\ r.post.hash = NullStr
           /\ steps(p))
            => /\ req'[p].status \notin {"400", "403", "404", "415", "463"}
               /\ req'[p].initialised
               /\ req'[p].filename = getCssFilename(r.user)]_vars

\* the step of p is a further call of initFile after one that returned
calledAgain(p) ==
    /\ req[p].op = "initFile"
    /\ req[p].pc = "done"
    /\ req[p].status = "returned"
    /\ req'[p].op = "initFile"
    /\ steps(p)

\* C22: a further call of initFile on a controller whose first call returned
\* returns at once, without a lookup: the controller does not enter the body
\* of initFile again, and filename, extension and row stay as they were.
C22_SecondCallNoOp ==
    [][\A p \in Procs :
          calledAgain(p) =>
            /\ req'[p].pc = "done"
            /\ req'[p].filename = req[p].filename
            /\ req'[p].extension = req[p].extension
            /\ req'[p].file = req[p].file]_vars

----------------------------------------------------------------------------
(* saveFile: what a save changes *)

\* the fields every save refreshes, as the request r gives them at time date
refreshed(row, r, date) ==
    /\ row.bytes = byteLength(r.contents)
    /\ row.encrypted = (IF r.post.encrypted THEN 1 ELSE 0)
    /\ row.expires = (IF r.post.expiration = NullNum
                      THEN NullNum ELSE r.post.expiration \div 1000)
    /\ row.hash = r.hash
    /\ row.updated = date

\* C23: a save that succeeds for a record that exists changes that row
\* only, keeps its id, users_id, filename, filetype and created, and
\* refreshes bytes, encrypted, expires (null without an expiration), hash
\* and updated; for a new record it inserts exactly one row, under an id
\* not in the table, stamped with the user, filename, filetype and creation
\* time of the request. A save that fails leaves the table as it was.
C23_RepersistFrame ==
    [][\A p \in Procs :
          LET r == req[p] IN
          (r.pc = "save" /\ steps(p)) =>
            IF req'[p].status # "200"
            THEN db' = db
            ELSE IF found(r.file)
            THEN \E old \in db, new \in db' :
                   /\ old.id = r.file.id
                   /\ new.id = old.id
                   /\ db' \ {new} = db \ {old}
                   /\ new.users_id = old.users_id
                   /\ new.filename = old.filename
                   /\ new.filetype = old.filetype
                   /\ new.created = old.created
                   /\ refreshed(new, r, clock)
            ELSE \E new \in db' :
                   /\ ~\E x \in db : x.id = new.id
                   /\ db' = db \cup {new}
                   /\ Cardinality(db') = Cardinality(db) + 1
                   /\ new.users_id = r.user
                   /\ new.filename = r.filename
                   /\ new.filetype = r.extension
                   /\ new.created = clock
                   /\ refreshed(new, r, clock)]_vars

\* C23 witness: a record that a sweep selected with its expiration has been
\* saved again, later, by a request without one: its row is in the table
\* with the old creation time, the new update time and no expiration
C23_Witness ==
    \E p \in Procs :
        LET r == req[p] IN
        /\ r.pc = "done"
        /\ r.status = "200"
        /\ r.post.expiration = NullNum
        /\ r.file \in db
        /\ r.file.created < r.file.updated
        /\ r.file.expires = NullNum
        /\ \E k \in 1..Len(sweep.files) :
              /\ sweep.files[k].id = r.file.id
              /\ sweep.files[k].expires # NullNum
              /\ sweep.files[k].created = r.file.created

----------------------------------------------------------------------------
(* The sweeper and records that were replaced *)

selectedIds == {sweep.files[k].id : k \in 1..Len(sweep.files)}

\* C24: a sweep takes out of the table only rows whose id is in its own
\* selection; a row that has the filename and filetype of a selected record
\* under another id is left in the table by the deletion for that record.
C24_DeletesByCapturedId ==
    [][sweep' # sweep =>
         /\ \A x \in removed : x.id \in selectedIds
         /\ sweep.pc = "delete" =>
               \A x \in db :
                   (/\ x.filename = current.filename
                    /\ x.filetype = current.filetype
                    /\ x.id \notin selectedIds) => x \in db']_vars

\* C24 witness: a sweep called on the Cron instance has reached a selected
\* record (file unlinked, URL purged) and is at its DELETE; the record was
\* removed in the meantime and a record inserted since under the same
\* filename and filetype, with a new id, is in the table
C24_Witness ==
    /\ sweep.self = "Cron"
    /\ sweep.pc = "delete"
    /\ displayUrl(current.filename, current.filetype) \in sweep.purged
    /\ ~\E x \in db : x.id = current.id
    /\ \E x \in db :
          /\ x.filename = current.filename
          /\ x.filetype = current.filetype
          /\ x.id \notin selectedIds
          /\ x.id > current.id

----------------------------------------------------------------------------
(* Stylesheets of different owners *)

othersCss(user) == {x \in db : x.filetype = "css" /\ x.users_id # user}

\* C25: no step of a css upload changes a css row of another owner or the
\* file of such a row, and the filename the upload settles on is the
\* filename of no css row of another owner, whatever the hashes.
C25_StylesheetIsolation ==
    [][\A p \in Procs :
          LET r == req[p] IN
          (r.op = "upload" /\ r.post.filetype = "css" /\ steps(p)) =>
            /\ \A x \in othersCss(r.user) :
                  LET path == fullFilePath(x.filename, x.filetype) IN
                  /\ x \in db'
                  /\ path \in DOMAIN disk =>
                        (path \in DOMAIN disk' /\ disk'[path] = disk[path])
            /\ req'[p].pc = "writeFile" =>
                  \A x \in othersCss(r.user) : x.filename # req'[p].filename]_vars

\* C25 witness: both owners have uploaded a stylesheet with the same hash;
\* each has a row and a file of its own for it
C25_Witness ==
    \E x \in db, y \in db :
        /\ x.filetype = "css" /\ y.filetype = "css"
        /\ x.users_id = "A" /\ y.users_id = "B"
        /\ x.hash = y.hash
        /\ x.filename # y.filename
        /\ fullFilePath(x.filename, "css") \in DOMAIN disk
        /\ fullFilePath(y.filename, "css") \in DOMAIN disk
        /\ \E p \in Procs :
              /\ req[p].pc = "done" /\ req[p].status = "200"
              /\ req[p].file = y

----------------------------------------------------------------------------
(* The Row Mapper *)

lastCall(m) == IF m.calls = <<>> THEN "" ELSE m.calls[Len(m.calls)]

\* the step is a call of the method on the mapper
calls(name) ==
    /\ Len(mapper'.calls) = Len(mapper.calls) + 1
    /\ lastCall(mapper') = name

ids(table) == {x.id : x \in table}

\* C26: save() of a row with an id overwrites, in the row of the table with
\* that id, every field but id with the fields of the in-memory row, leaves
\* every other row alone and returns true; when no row has that id nothing
\* is inserted or changed and it returns false. save() of a row without an
\* id inserts exactly one row, under an id not in the table, puts that id
\* into the in-memory row and returns true, so the in-memory row has an id
\* for the next save().
C26_MapperSave ==
    [][calls("save") =>
         LET row == mapper.row IN
         IF row.id # NullId
         THEN /\ mapper'.row = row
              /\ mapper'.returned = (row.id \in ids(db))
              /\ {x \in db' : x.id # row.id} = {x \in db : x.id # row.id}
              /\ mapper'.returned => row \in db'
              /\ ~mapper'.returned => db' = db
              /\ ids(db') = ids(db)
         ELSE /\ mapper'.returned
              /\ mapper'.row.id # NullId
              /\ mapper'.row.id \notin ids(db)
              /\ mapper'.row = [row EXCEPT !.id = mapper'.row.id]
              /\ db' = db \cup {mapper'.row}
              /\ Cardinality(db') = Cardinality(db) + 1]_vars

\* C26 witness: set, save, set, save on a fresh mapper: the first save
\* inserted, the second updated that row; the table has the one row, as
\* last set
C26_Witness ==
    /\ mapper.calls = <<"set", "save", "set", "save">>
    /\ mapper.returned
    /\ db = {mapper.row}
    /\ mapper.row.id = 1
    /\ mapper.row.filename = <<"b">>
    /\ mapper.row.filetype = "png"
    /\ nextId = 2

\* C27: load(filter) leaves the table alone and makes the in-memory row a
\* row of the table that agrees with the filter on every field of it, when
\* there is one, and otherwise the row with every column null, whatever the
\* in-memory row was before; at all times exactly one of found and notFound
\* holds, and found holds exactly when the in-memory row has an id.
C27_MapperLoad ==
    [][/\ calls("load") =>
            LET filter == mapper'.params
                agrees(x) == \A k \in DOMAIN filter : x[k] = filter[k]
            IN  /\ db' = db
                /\ (\E x \in db : agrees(x))
                      => (mapper'.row \in db /\ agrees(mapper'.row))
                /\ (~\E x \in db : agrees(x))
                      => \A k \in DOMAIN emptyRow : mapper'.row[k] = emptyRow[k]
       /\ found(mapper'.row) # notFound(mapper'.row)
       /\ found(mapper'.row) = (mapper'.row.id # NullId)]_vars

\* C27 witness: a mapper that had called load and then set fields on its
\* row has called load with a filter no row of the table agrees with: its
\* row is all null though the table is not empty
C27_Witness ==
    /\ Len(mapper.calls) = 4
    /\ SubSeq(mapper.calls, 2, 4) = <<"load", "set", "load">>
    /\ mapper.params = [filename |-> <<"b">>]
    /\ mapper.row = emptyRow
    /\ db # {}

----------------------------------------------------------------------------
(* Generated names *)

\* C28: every byte is scaled to a number in 0..35, one base-36 digit; the
\* name getHashFilename returns has 8 characters for html and 20 for any
\* other filetype, all of [0-9a-z], one per byte in the order drawn, and it
\* passes the filename check of checkPostFilenameAndExtension.
C28_GeneratedNameShape ==
    /\ call.pc \in {"drawn", "named"} =>
          \A i \in 1..Len(call.bytes) :
              /\ scaled(call.bytes[i]) \in 0..35
              /\ Len(toString36(scaled(call.bytes[i]))) = 1
    /\ call.pc = "named" =>
          /\ Len(call.filename) = (IF call.extension = "html" THEN 8 ELSE 20)
          /\ \A i \in 1..Len(call.filename) :
                /\ call.filename[i] \in LowerAlnum
                /\ call.filename[i] = Base36[((call.bytes[i] * 36) \div 256) + 1]
          /\ checkStatus([filetype |-> "png", filename |-> call.filename]) = ""

\* C28 witness: a name of 8 characters returned for html from bytes 255 and
\* 0: "z0z0z0z0"
C28_Witness ==
    /\ call.pc = "named"
    /\ call.extension = "html"
    /\ call.bytes[1] = MaxByte
    /\ call.bytes[2] = 0
    /\ call.filename = <<"z", "0", "z", "0", "z", "0", "z", "0">>

----------------------------------------------------------------------------
(* Rows and files *)

quiescent ==
    /\ \A p \in DOMAIN req : req[p].pc = "idle"
    /\ sweep.pc = "idle"

\* C29: whenever no request and no sweep is in flight, the file of every
\* row of the table is on disk.
C29_IndexImpliesFile ==
    quiescent =>
        \A x \in db : fullFilePath(x.filename, x.filetype) \in DOMAIN disk

----------------------------------------------------------------------------
(* Names of documents *)

notesOf(table, name) == {x \in table : x.filetype = "html" /\ x.filename = name}

\* C30: every html row has a filename that getHashFilename returns, never a
\* name that only a client sent. When initFile looks up a name sent for
\* which the table has no record, createNote goes on under a generated name
\* and initFile(false) is turned away with 403; initFile settles on a name
\* sent that is not a generated one only when the table has a record of
\* that name owned by the caller.
C30_NamesNotClientChosen ==
    [][/\ \A x \in db' : x.filetype = "html" =>
                              x.filename \in getHashFilename("html")
       /\ \A p \in Procs :
            LET r == req[p]
                sent == stem(r.post.filename)
            IN  (/\ r.pc \in {"createNote", "initFile"}
                 /\ r.post.filetype = "html"
                 /\ r.post.filename # NullStr
                 /\ steps(p))
                  => /\ (notesOf(db, sent) = {} /\ r.op = "createNote")
                          => /\ req'[p].pc = "recheck"
                             /\ req'[p].filename \in getHashFilename("html")
                     /\ (notesOf(db, sent) = {} /\ r.op = "initFile")
                          => /\ req'[p].pc = "done"
                             /\ req'[p].status = "403"
                     /\ (/\ req'[p].pc = "recheck"
                         /\ req'[p].filename = sent
                         /\ sent \notin getHashFilename("html"))
                          => \E x \in notesOf(db, sent) : x.users_id = r.user]_vars

\* C30 witness: a createNote that sent a well-formed name of its own
\* choosing, which no record has, has been saved under a generated name: its
\* row is in the table, and no row has the name sent
C30_Witness ==
    \E p \in Procs :
        LET r == req[p] IN
        /\ r.op = "createNote"
        /\ r.pc = "done"
        /\ r.status = "200"
        /\ r.post.filename = chosenName
        /\ r.file \in db
        /\ r.file.filename \in getHashFilename("html")
        /\ notesOf(db, chosenName) = {}

----------------------------------------------------------------------------
(* Paths of different keys *)

\* the characters of a piece of a path: buckets and filetypes are spelt out,
\* a character is itself, and so are the base folder and "/userfiles/", with
\* which every path starts
spell(piece) ==
    CASE piece = "notes" -> <<"n", "o", "t", "e", "s">>
      [] piece = "files" -> <<"f", "i", "l", "e", "s">>
      [] piece = "css" -> <<"c", "s", "s">>
      [] piece = "html" -> <<"h", "t", "m", "l">>
      [] piece = "jpg" -> <<"j", "p", "g">>
      [] piece = "jpeg" -> <<"j", "p", "e", "g">>
      [] piece = "woff" -> <<"w", "o", "f", "f">>
      [] piece = "woff2" -> <<"w", "o", "f", "f", "2">>
      [] OTHER -> <<piece>>

\* a path as the string of characters the filesystem is given
RECURSIVE text(_)
text(path) ==
    IF path = <<>> THEN <<>> ELSE spell(Head(path)) \o text(Tail(path))

\* C31: for every shard length, the file paths of two different
\* (filename, filetype) pairs are different strings.
C31_PathInjective ==
    call.pc = "returned twice" =>
        (text(call.filePath) = text(call.filePath2)
            => /\ call.filename = call.filename2
               /\ call.extension = call.extension2)

\* C31 witness: with shard length 3, fullFilePath has returned for css.jpg
\* and css.jpeg, two keys of one bucket and one shard: the paths differ
C31_Witness ==
    /\ call.pc = "returned twice"
    /\ call.app.folderPrefix = 3
    /\ call.filename = <<"c", "s", "s">>
    /\ call.filename2 = <<"c", "s", "s">>
    /\ call.extension = "jpg"
    /\ call.extension2 = "jpeg"
    /\ text(call.filePath) # text(call.filePath2)
    /\ text(call.filePath) =
          <<"{baseFolder}", "/userfiles/", "f", "i", "l", "e", "s", "/",
            "c", "s", "s", "/", "c", "s", "s", ".", "j", "p", "g">>

----------------------------------------------------------------------------
(* The check operations *)

\* the request of p is one of the check operations
checking(p) == req[p].op \in {"checkFile", "checkCss", "checkFiles"}

\* the records a checkFile of this user for (filetype, hash) is about: for
\* css, the css records with this hash whose filename starts with the
\* owner's prefix; otherwise the records with this filetype and hash
recordsFor(table, user, filetype, hash) ==
    {x \in table :
       /\ x.filetype = filetype
       /\ x.hash = hash
       /\ filetype = "css" =>
            /\ Len(x.filename) >= ShortHashLen
            /\ \A i \in 1..ShortHashLen :
                 x.filename[i] = getCssFilename(user)[i]}

\* C32: no step of a checkFile, checkCss or checkFiles request writes or
\* deletes a file, inserts, updates or deletes an index row, or hands
\* anything to the cache purge; and checkFile answers success exactly when
\* the index holds a record for its (filetype, hash) (for css: of the
\* owner's prefix), the URL being the display URL of such a record, and no
\* URL otherwise.
C32_ChecksReadOnly ==
    [][\A p \in Procs :
         checking(p) /\ steps(p) =>
           /\ db' = db
           /\ disk' = disk
           /\ nextId' = nextId
           /\ req'[p].purged = {}
           /\ req[p].pc = "checkFile" =>
                LET m == recordsFor(db, req[p].user, req[p].post.filetype,
                                    req[p].post.hash)
                IN /\ req'[p].pc = "done"
                   /\ req'[p].success <=> m # {}
                   /\ req'[p].success =>
                        req'[p].url \in
                          {displayUrl(x.filename, x.filetype) : x \in m}
                   /\ ~req'[p].success => req'[p].url = NullStr]_vars

\* a checkFile for a stylesheet has answered success with the URL of the
\* user's own record while another user holds a stylesheet of the same hash
C32_Witness ==
    \E p \in Procs :
      /\ req[p].op = "checkFile"
      /\ req[p].pc = "done"
      /\ req[p].post.filetype = "css"
      /\ req[p].success
      /\ \E x \in db :
           /\ x.users_id = req[p].user
           /\ x.filetype = "css"
           /\ x.hash = req[p].post.hash
           /\ req[p].url = displayUrl(x.filename, x.filetype)
      /\ \E y \in db :
           /\ y.users_id # req[p].user
           /\ y.filetype = "css"
           /\ y.hash = req[p].post.hash
           /\ req[p].url # displayUrl(y.filename, y.filetype)

====
